---- MODULE Spec2Model ----
(***************************************************************************)
(* KVM Manager Service (kvm-mgr-service/main.py): the port-switch          *)
(* transaction switch_kvm_port, the /switch and /test_serial handlers and  *)
(* the single event loop that runs them.                                   *)
(*                                                                         *)
(* Strings are sequences of one-character strings, byte strings are        *)
(* sequences of integers, so that encode/decode/strip are computed.        *)
(***************************************************************************)
EXTENDS Integers, Sequences, FiniteSets, TLC

(* ---------------------------------------------------------------- bounds *)

\* number of request slots (HTTP requests / direct calls in flight)
NReq == 2
\* how far outside 1..10 the port inputs reach
Margin == 1

Req == 1..NReq
NoReq == 0
PortInputs == (1 - Margin)..(10 + Margin)
Devices == {"/dev/ttyUSB0", "/dev/ttyUSB1"}

\* bytes a device may deliver to one read: nothing, "  OK\r\n", a lone
\* non-ASCII byte, "O<0xC8>K"
RawResponses == {<<>>, <<32, 32, 79, 75, 13, 10>>, <<200>>, <<79, 200, 75>>}

(* ------------------------------------------------------------- constants *)

None == "None"

\* PORT_COMMANDS as written in the source
CommandTableOff == [p \in 1..10 |->
    IF p = 10 THEN <<"X", "1", "0", ",", "1", "$">>
    ELSE <<"X", <<"1", "2", "3", "4", "5", "6", "7", "8", "9">>[p], ",", "1", "$">>]

CommandTable ==
    (1 :> <<"X", "1", ",", "1", "$">>) @@ (2 :> <<"X", "2", ",", "1", "$">>) @@
    (3 :> <<"X", "3", ",", "1", "$">>) @@ (4 :> <<"X", "4", ",", "1", "$">>) @@
    (5 :> <<"X", "5", ",", "1", "$">>) @@ (6 :> <<"X", "6", ",", "1", "$">>) @@
    (7 :> <<"X", "7", ",", "1", "$">>) @@ (8 :> <<"X", "8", ",", "1", "$">>) @@
    (9 :> <<"X", "9", ",", "1", "$">>) @@ (10 :> <<"X", "A", ",", "1", "$">>)

\* ser.read(ser.in_waiting or 1024)
READ_CAP == 1024

(* ------------------------------------------------------- pure functions *)

validate_port_number_off(port) == 0 <= port /\ port <= 10

validate_port_number(port) == 1 <= port /\ port <= 10

\* Query(..., ge=1, le=10) on the port parameter of /switch
QueryPortOk(port) == port >= 1 /\ port <= 10

\* str.encode('ascii') over the characters the table uses
Ord == ("$" :> 36) @@ ("," :> 44) @@ ("0" :> 48) @@ ("1" :> 49) @@ ("2" :> 50) @@
       ("3" :> 51) @@ ("4" :> 52) @@ ("5" :> 53) @@ ("6" :> 54) @@ ("7" :> 55) @@
       ("8" :> 56) @@ ("9" :> 57) @@ ("A" :> 65) @@ ("X" :> 88)

Encode(s) == [i \in 1..Len(s) |-> Ord[s[i]]]

\* bytes.decode('ascii', errors='ignore'): bytes >= 128 are dropped
AsciiChr == (10 :> "\n") @@ (13 :> "\r") @@ (32 :> " ") @@ (75 :> "K") @@ (79 :> "O")

IsAscii(b) == b < 128

Decode(bytes) ==
    LET kept == SelectSeq(bytes, IsAscii)
    IN  [i \in 1..Len(kept) |-> AsciiChr[kept[i]]]

Whitespace == {" ", "\t", "\n", "\r", "\f"}

\* str.strip(): drop leading and trailing whitespace
Strip(s) ==
    LET idx == {i \in 1..Len(s) : s[i] \notin Whitespace}
    IN  IF idx = {} THEN <<>>
        ELSE LET lo == CHOOSE i \in idx : \A j \in idx : i <= j
                 hi == CHOOSE i \in idx : \A j \in idx : j <= i
             IN  SubSeq(s, lo, hi)

\* the bytes one ser.read(ser.in_waiting or 1024) returns: the bytes waiting,
\* or, when none wait, up to 1024 of those that arrive before the read timeout
ReadBytes(waiting, late) ==
    LET size == IF Len(waiting) # 0 THEN Len(waiting) ELSE READ_CAP
        avail == IF Len(waiting) # 0 THEN waiting ELSE late
    IN  SubSeq(avail, 1, IF Len(avail) < size THEN Len(avail) ELSE size)

\* SwitchResponse(success, port, command, response, error=None)
SwitchResponse(success, port, command, response, error) ==
    [success |-> success, port |-> port, command |-> command,
     response |-> response, error |-> error]

(* ------------------------------------------------------ exception classes *)

\* the classes a failing step raises, each with the classes it is an
\* instance of (serial.SerialException derives from OSError)
Ancestors ==
    [SerialException |-> {"SerialException", "OSError", "Exception"},
     SerialTimeoutException |->
        {"SerialTimeoutException", "SerialException", "OSError", "Exception"},
     PermissionError |-> {"PermissionError", "OSError", "Exception"},
     ValueError |-> {"ValueError", "Exception"}]

FaultClasses == DOMAIN Ancestors

IsInstance(cls, of) == of \in Ancestors[cls]

\* the error-message prefixes, one per error kind
InvalidPort == "Invalid port number: "
SerialCommunicationFailure == "Serial communication failed: "
AccessDenied == "Access denied to serial port "
InternalError == "Unexpected error: "

\* the except clauses of switch_kvm_port, in source order
ExceptClausesSwapped ==
    << [catches |-> "Exception", error |-> InternalError],
       [catches |-> "SerialException", error |-> SerialCommunicationFailure],
       [catches |-> "PermissionError", error |-> AccessDenied] >>

ExceptClausesNoCatchAll ==
    << [catches |-> "SerialException", error |-> SerialCommunicationFailure],
       [catches |-> "PermissionError", error |-> AccessDenied] >>

ExceptClauses ==
    << [catches |-> "SerialException", error |-> SerialCommunicationFailure],
       [catches |-> "PermissionError", error |-> AccessDenied],
       [catches |-> "Exception", error |-> InternalError] >>

\* the first clause that matches the exception, 0 when none does
MatchingClause(cls) ==
    LET hits == {i \in 1..Len(ExceptClauses) : IsInstance(cls, ExceptClauses[i].catches)}
    IN  IF hits = {} THEN 0 ELSE CHOOSE i \in hits : \A j \in hits : i <= j

\* the error kind the matching clause reports, None when the exception is
\* not caught
HandlerError(cls) ==
    IF MatchingClause(cls) = 0 THEN None ELSE ExceptClauses[MatchingClause(cls)].error

(* --------------------------------------------------- order of the steps *)

\* the statements of the with block of switch_kvm_port, in source order
TransactionStepsNoSleep ==
    << "open", "reset_input_buffer", "reset_output_buffer", "write", "flush",
       "read", "decode" >>

TransactionStepsWriteFirst ==
    << "open", "write", "reset_input_buffer", "reset_output_buffer", "flush",
       "sleep", "read", "decode" >>

TransactionSteps ==
    << "open", "reset_input_buffer", "reset_output_buffer", "write", "flush",
       "sleep", "read", "decode" >>

\* the with block of test_serial_port only opens the device
TestSteps == << "open" >>

StepsOf(kind) == IF kind = "test" THEN TestSteps ELSE TransactionSteps

IndexOf(seq, x) == CHOOSE i \in 1..Len(seq) : seq[i] = x

\* where control goes when a step completes: the next statement, or, after
\* the last one, the return inside the with block, which runs __exit__
NextStep(kind, step) ==
    LET steps == StepsOf(kind)
        i == IndexOf(steps, step)
    IN  IF i < Len(steps) THEN steps[i + 1] ELSE "exit"

\* where control goes when a step raises: __exit__ of the with block when
\* the Serial object was entered, the except clauses otherwise
AfterFaultNoExit(ser) == "except"

AfterFault(ser) == IF ser = "open" THEN "exit" ELSE "except"

(* ----------------------------------------------------------------- state *)

VARIABLES
    PORT_COMMANDS,  \* the module-level command table
    running,        \* the request whose handler the event loop is executing
    pc,             \* per request: where its handler stands
    request,        \* per request: kind, serial_port, port
    frame,          \* per request: locals of the running call
    reply,          \* per request: what the caller or client receives
    trace           \* per request: the device operations the call performed

vars == << PORT_COMMANDS, running, pc, request, frame, reply, trace >>

NoResponse == SwitchResponse(FALSE, 0, <<>>, <<>>, None)

IdleRequest == [kind |-> "none", serial_port |-> "", port |-> 0, checked |-> "unchecked"]
IdleFrame == [command |-> <<>>, ser |-> "none", exc |-> None, raw |-> <<>>,
              hasRet |-> FALSE, retval |-> NoResponse]
IdleReply == [status |-> 0, escaped |-> FALSE, returned |-> FALSE,
              result |-> NoResponse]
IdleTrace == [ops |-> <<>>, written |-> <<>>, fault |-> None, closeFault |-> None]

Init ==
    /\ PORT_COMMANDS = CommandTable
    /\ running = NoReq
    /\ pc = [r \in Req |-> "idle"]
    /\ request = [r \in Req |-> IdleRequest]
    /\ frame = [r \in Req |-> IdleFrame]
    /\ reply = [r \in Req |-> IdleReply]
    /\ trace = [r \in Req |-> IdleTrace]

(* --------------------------------------------------------------- actions *)

\* A client sends a request about a device; it waits until the event loop
\* reads it.
Arrive(r, dev) ==
    /\ pc[r] = "idle"
    /\ pc' = [pc EXCEPT ![r] = "pending"]
    /\ request' = [request EXCEPT ![r].serial_port = dev]
    /\ UNCHANGED << PORT_COMMANDS, running, frame, reply, trace >>

\* The handlers are coroutines without an await, run by the one event loop
\* uvicorn.run starts: a handler starts only when no other is executing.
CanRunThreaded == TRUE

CanRun == running = NoReq

\* The event loop takes a pending request, routes it and starts its handler:
\* kind "switch" is GET /switch, kind "test" is GET /test_serial/{serial_port},
\* kind "call" is a direct call of switch_kvm_port on the same thread. For
\* /switch the port parameter is validated first (ge=1, le=10), and a port
\* outside the range is answered 422 without running the handler.
Dispatch(r, kind, port) ==
    /\ pc[r] = "pending"
    /\ CanRun
    /\ request' = [request EXCEPT ![r].kind = kind, ![r].port = port]
    /\ running' = r
    /\ IF kind = "switch" /\ ~QueryPortOk(port)
       THEN /\ pc' = [pc EXCEPT ![r] = "done"]
            /\ reply' = [reply EXCEPT ![r].status = 422]
       ELSE /\ pc' = [pc EXCEPT ![r] =
                        CASE kind = "switch" -> "facade"
                          [] kind = "call" -> "validate"
                          [] OTHER -> TestSteps[1]]
            /\ UNCHANGED reply
    /\ UNCHANGED << PORT_COMMANDS, frame, trace >>

\* switch_port: Path(serial_port).exists(); a missing path raises
\* HTTPException(400), which the handler re-raises.
PathCheckPassesAlways(exists) == TRUE

PathCheckPasses(exists) == exists

FacadeCheck(r, exists) ==
    /\ pc[r] = "facade"
    /\ IF PathCheckPasses(exists)
       THEN /\ pc' = [pc EXCEPT ![r] = "validate"]
            /\ UNCHANGED << running, reply >>
       ELSE /\ pc' = [pc EXCEPT ![r] = "done"]
            /\ reply' = [reply EXCEPT ![r].status = 400]
            /\ UNCHANGED running
    /\ request' = [request EXCEPT ![r].checked = IF exists THEN "exists" ELSE "missing"]
    /\ UNCHANGED << PORT_COMMANDS, frame, trace >>

\* switch_kvm_port up to the try: validation, then the table lookup, which
\* is outside the try, so a missing key raises KeyError to the caller.
InvalidPortResponse(port) == SwitchResponse(FALSE, port, <<>>, <<>>, InvalidPort)

Validate(r) ==
    /\ pc[r] = "validate"
    /\ LET port == request[r].port
       IN  IF ~validate_port_number(port)
           THEN /\ frame' = [frame EXCEPT ![r].hasRet = TRUE,
                                          ![r].retval = InvalidPortResponse(port)]
                /\ pc' = [pc EXCEPT ![r] = "return"]
           ELSE IF port \in DOMAIN PORT_COMMANDS
           THEN /\ frame' = [frame EXCEPT ![r].command = PORT_COMMANDS[port]]
                /\ pc' = [pc EXCEPT ![r] = TransactionSteps[1]]
           ELSE /\ frame' = [frame EXCEPT ![r].exc = "KeyError"]
                /\ pc' = [pc EXCEPT ![r] = "raised"]
    /\ UNCHANGED << PORT_COMMANDS, running, request, reply, trace >>

\* the failure result the except clauses build: the command stays populated
ErrorResponseNoCommand(port, command, error) ==
    SwitchResponse(FALSE, port, <<>>, <<>>, error)

ErrorResponse(port, command, error) == SwitchResponse(FALSE, port, command, <<>>, error)

\* the dictionaries test_serial_port returns
TestReply(success) ==
    IF success
    THEN [success |-> TRUE, message |-> "Successfully connected to ", error |-> None]
    ELSE [success |-> FALSE, message |-> None, error |-> "Failed to connect to "]

StepNames == {TransactionSteps[i] : i \in 1..Len(TransactionSteps)} \cup
             {TestSteps[i] : i \in 1..Len(TestSteps)}

\* the operations on the device and the delay are recorded; decoding is not
\* an operation on the device
Recorded(step) == step # "decode"

\* One statement of the with block: it completes ("ok") or raises an
\* exception of some class. waiting and late are the bytes the device has
\* buffered at the read and those it sends before the read timeout.
Step(r, outcome, waiting, late) ==
    /\ pc[r] \in StepNames
    /\ LET step == pc[r]
           kind == request[r].kind
           f == frame[r]
           ops == IF Recorded(step) THEN Append(trace[r].ops, step) ELSE trace[r].ops
           written == IF step = "write"
                      THEN Append(trace[r].written, Encode(f.command))
                      ELSE trace[r].written
           raw == IF step = "read" THEN ReadBytes(waiting, late) ELSE f.raw
           last == NextStep(kind, step) = "exit"
       IN  IF outcome = "ok"
           THEN /\ pc' = [pc EXCEPT ![r] = NextStep(kind, step)]
                /\ frame' = [frame EXCEPT ![r] =
                      [f EXCEPT !.ser = IF step = "open" THEN "open" ELSE @,
                                !.raw = raw,
                                !.hasRet = last,
                                !.retval =
                                   IF ~last THEN @
                                   ELSE IF kind = "test" THEN TestReply(TRUE)
                                   ELSE SwitchResponse(TRUE, request[r].port, f.command,
                                                       Strip(Decode(raw)), None)]]
                /\ trace' = [trace EXCEPT ![r].ops = ops, ![r].written = written]
           ELSE /\ pc' = [pc EXCEPT ![r] = AfterFault(f.ser)]
                /\ frame' = [frame EXCEPT ![r].exc = outcome]
                /\ trace' = [trace EXCEPT ![r].ops = ops, ![r].written = written,
                                          ![r].fault = step]
    /\ UNCHANGED << PORT_COMMANDS, running, request, reply >>

\* __exit__ of the with block: Serial.close(), once, on the way out of the
\* block, whether by the return or by an exception. When close itself raises,
\* its exception replaces the outcome, and whether the descriptor was
\* released is up to the library (leak).
WithExit(r, outcome, leak) ==
    /\ pc[r] = "exit"
    /\ IF outcome = "ok"
       THEN /\ pc' = [pc EXCEPT ![r] = IF frame[r].exc # None THEN "except" ELSE "return"]
            /\ frame' = [frame EXCEPT ![r].ser = "closed"]
            /\ trace' = [trace EXCEPT ![r].ops = Append(@, "close")]
       ELSE /\ pc' = [pc EXCEPT ![r] = "except"]
            /\ frame' = [frame EXCEPT ![r].ser = IF leak THEN "open" ELSE "closed",
                                      ![r].exc = outcome,
                                      ![r].hasRet = FALSE]
            /\ trace' = [trace EXCEPT ![r].ops = Append(@, "close"),
                                      ![r].closeFault = outcome]
    /\ UNCHANGED << PORT_COMMANDS, running, request, reply >>

\* The except clauses: switch_kvm_port picks the first matching clause,
\* test_serial_port has the single clause except Exception.
Except(r) ==
    /\ pc[r] = "except"
    /\ LET f == frame[r]
           uncaught == IF request[r].kind = "test"
                       THEN ~IsInstance(f.exc, "Exception")
                       ELSE HandlerError(f.exc) = None
       IN  IF uncaught
           THEN /\ pc' = [pc EXCEPT ![r] = "raised"]
                /\ UNCHANGED frame
           ELSE /\ pc' = [pc EXCEPT ![r] = "return"]
                /\ frame' = [frame EXCEPT ![r].hasRet = TRUE,
                                ![r].retval =
                                   IF request[r].kind = "test" THEN TestReply(FALSE)
                                   ELSE ErrorResponse(request[r].port, f.command,
                                                      HandlerError(f.exc))]
    /\ UNCHANGED << PORT_COMMANDS, running, request, reply, trace >>

\* The call ends. A direct caller gets the result (or the exception that
\* escaped); /switch and /test_serial answer 200 with the result, and
\* switch_port turns an exception into HTTPException(500).
Return(r) ==
    /\ pc[r] \in {"return", "raised"}
    /\ pc' = [pc EXCEPT ![r] = "done"]
    /\ reply' = [reply EXCEPT ![r] =
          IF pc[r] = "return"
          THEN [status |-> IF request[r].kind = "call" THEN 0 ELSE 200,
                escaped |-> FALSE, returned |-> TRUE, result |-> frame[r].retval]
          ELSE [status |-> IF request[r].kind = "call" THEN 0 ELSE 500,
                escaped |-> request[r].kind = "call", returned |-> FALSE,
                result |-> NoResponse]]
    /\ UNCHANGED << PORT_COMMANDS, running, request, frame, trace >>

\* The reply is sent (or the direct caller has its result) and the event loop
\* is free for the next request; nothing of the call survives it.
Respond(r) ==
    /\ pc[r] = "done"
    /\ pc' = [pc EXCEPT ![r] = "idle"]
    /\ request' = [request EXCEPT ![r] = IdleRequest]
    /\ frame' = [frame EXCEPT ![r] = IdleFrame]
    /\ reply' = [reply EXCEPT ![r] = IdleReply]
    /\ trace' = [trace EXCEPT ![r] = IdleTrace]
    /\ running' = IF running = r THEN NoReq ELSE running
    /\ UNCHANGED PORT_COMMANDS

Kinds == {"switch", "test", "call"}
Outcomes == {"ok"} \cup FaultClasses

Next ==
    \/ \E r \in Req, dev \in Devices : Arrive(r, dev)
    \/ \E r \in Req, kind \in Kinds, port \in PortInputs : Dispatch(r, kind, port)
    \/ \E r \in Req, exists \in BOOLEAN : FacadeCheck(r, exists)
    \/ \E r \in Req : Validate(r)
    \/ \E r \in Req, outcome \in Outcomes, waiting \in RawResponses, late \in RawResponses :
          Step(r, outcome, waiting, late)
    \/ \E r \in Req, outcome \in Outcomes, leak \in BOOLEAN : WithExit(r, outcome, leak)
    \/ \E r \in Req : Except(r)
    \/ \E r \in Req : Return(r)
    \/ \E r \in Req : Respond(r)

Spec == Init /\ [][Next]_vars

\* Every step of a handler is a bounded blocking call (timeouts of 1.0 s, a
\* sleep of 0.5 s), so a handler that has started keeps running.
Progress(r) ==
    \/ \E exists \in BOOLEAN : FacadeCheck(r, exists)
    \/ Validate(r)
    \/ \E outcome \in Outcomes, waiting \in RawResponses, late \in RawResponses :
          Step(r, outcome, waiting, late)
    \/ \E outcome \in Outcomes, leak \in BOOLEAN : WithExit(r, outcome, leak)
    \/ Except(r)
    \/ Return(r)

\* One caller alone: request 1 is sent, handled and answered, again and again.
NextOne ==
    \/ \E dev \in Devices : Arrive(1, dev)
    \/ \E kind \in Kinds, port \in PortInputs : Dispatch(1, kind, port)
    \/ Progress(1)
    \/ Respond(1)

CallSpec == Init /\ [][NextOne]_vars /\ WF_vars(Progress(1))

(* ------------------------------------------------------------ properties *)

\* the request is a call of switch_kvm_port: a direct one, or the one
\* switch_port makes
IsCall(r) == request[r].kind \in {"call", "switch"}

\* switch_kvm_port has been entered for request r
Entered(r) ==
    /\ IsCall(r)
    /\ pc[r] \notin {"idle", "pending", "facade"}
    /\ ~(pc[r] = "done" /\ reply[r].status \in {400, 422})

\* switch_kvm_port has ended for request r
Ended(r) == Entered(r) /\ pc[r] = "done"

ValidPort(p) == p \in 1..10

\* the protocol string for port p: "X{p},1$", with A for port 10
Expected(p) ==
    << "X", IF p = 10 THEN "A" ELSE << "1", "2", "3", "4", "5", "6", "7", "8", "9" >>[p],
       ",", "1", "$" >>

Has(ops, step) == \E i \in 1..Len(ops) : ops[i] = step
Count(ops, step) == Cardinality({i \in 1..Len(ops) : ops[i] = step})
Pos(ops, step) == CHOOSE i \in 1..Len(ops) : ops[i] = step

\* the step was attempted and did not raise
Completed(r, step) ==
    /\ Has(trace[r].ops, step)
    /\ IF step = "close" THEN trace[r].closeFault = None ELSE trace[r].fault # step

\* C1: for a port outside 1..10, switch_kvm_port returns success=false with
\* the InvalidPort error, command "" and response "", and the call never
\* opens, writes or reads the device.
C1_InvalidPortNoDeviceAccess ==
    \A r \in Req :
        (Entered(r) /\ ~ValidPort(request[r].port)) =>
            /\ trace[r] = IdleTrace
            /\ frame[r].ser = "none"
            /\ pc[r] \in {"validate", "return", "done"}
            /\ pc[r] = "done" =>
                  /\ reply[r].returned
                  /\ reply[r].result =
                        [success |-> FALSE, port |-> request[r].port, command |-> <<>>,
                         response |-> <<>>, error |-> InvalidPort]

C1_Witness ==
    \E r \in Req :
        /\ Ended(r)
        /\ request[r].port > 10
        /\ reply[r].returned
        /\ ~reply[r].result.success

\* C2: for a port p in 1..10 the bytes written to the device and the command
\* reported in the result are the table entry for p, "X{p},1$" for 1..9 and
\* "XA,1$" for 10; the table has exactly these ten entries and never changes.
C2_CommandIsTableEntry ==
    /\ DOMAIN PORT_COMMANDS = 1..10
    /\ \A p \in 1..10 : PORT_COMMANDS[p] = Expected(p)
    /\ Encode(Expected(1)) = << 88, 49, 44, 49, 36 >>
    /\ Encode(Expected(10)) = << 88, 65, 44, 49, 36 >>
    /\ \A r \in Req :
          (Entered(r) /\ ValidPort(request[r].port)) =>
              /\ \A i \in 1..Len(trace[r].written) :
                    trace[r].written[i] = Encode(Expected(request[r].port))
              /\ Has(trace[r].ops, "write") => Len(trace[r].written) = 1
              /\ (pc[r] = "done" /\ reply[r].returned) =>
                    reply[r].result.command = Expected(request[r].port)

C2_Witness ==
    \E r \in Req :
        /\ Ended(r)
        /\ request[r].port = 10
        /\ reply[r].returned
        /\ reply[r].result.success
        /\ reply[r].result.command = << "X", "A", ",", "1", "$" >>
        /\ trace[r].written = << << 88, 65, 44, 49, 36 >> >>

\* C3: a result with success=true has a non-empty command of the table, a
\* read was attempted in that call and error is absent; a result with
\* success=false has a non-empty error, and its command is empty exactly when
\* the port failed validation.
C3_ResultWellFormed ==
    \A r \in Req :
        (Ended(r) /\ reply[r].returned) =>
            LET res == reply[r].result
            IN  /\ res.success =>
                      /\ res.command # <<>>
                      /\ \E p \in DOMAIN PORT_COMMANDS : PORT_COMMANDS[p] = res.command
                      /\ Has(trace[r].ops, "read")
                      /\ res.error = None
                /\ ~res.success =>
                      /\ res.error # None
                      /\ res.error # ""
                      /\ (res.command = <<>>) <=> ~ValidPort(request[r].port)

C3_Witness ==
    \E r \in Req :
        /\ Ended(r)
        /\ reply[r].returned
        /\ reply[r].result.success
        /\ reply[r].result.response = <<>>
        /\ frame[r].raw = << 200 >>

\* the error kind each exception class is to be reported as
KindOf(cls) ==
    CASE cls = "PermissionError" -> AccessDenied
      [] cls \in {"SerialException", "SerialTimeoutException"} -> SerialCommunicationFailure
      [] OTHER -> InternalError

\* C4: for a valid port, an exception raised at a step of the transaction is
\* reported by its class: PermissionError as AccessDenied, a serial exception
\* as SerialCommunicationFailure, any other as InternalError; the result has
\* success=false, an empty response and the table entry as command.
C4_FaultMappedByClass ==
    \A r \in Req :
        (Ended(r) /\ ValidPort(request[r].port) /\ frame[r].exc # None) =>
            /\ trace[r].closeFault = None => trace[r].fault # None
            /\ reply[r].returned
            /\ reply[r].result =
                  [success |-> FALSE, port |-> request[r].port,
                   command |-> Expected(request[r].port), response |-> <<>>,
                   error |-> KindOf(frame[r].exc)]

C4_Witness ==
    \E r \in Req :
        /\ Ended(r)
        /\ trace[r].fault = "open"
        /\ frame[r].exc = "PermissionError"
        /\ reply[r].result.error = AccessDenied
        /\ reply[r].result.command = Expected(request[r].port)

\* no exception has left switch_kvm_port, and a call that ended returned a
\* result
NothingEscapes ==
    \A r \in Req :
        IsCall(r) =>
            /\ pc[r] # "raised"
            /\ ~reply[r].escaped
            /\ reply[r].status # 500
            /\ Ended(r) => reply[r].returned

\* the result a call returned is not replaced by another
ResultStands ==
    \A r \in Req :
        (IsCall(r) /\ reply[r].returned) => (reply'[r] = reply[r] \/ pc'[r] = "idle")

\* C5: every call of switch_kvm_port ends by returning exactly one result and
\* no exception leaves it, whichever step (open, buffer reset, write, flush,
\* delay, read, decode, close) raises and whatever class it raises.
C5_AlwaysReturnsOneResult ==
    /\ []NothingEscapes
    /\ [][ResultStands]_vars
    /\ \A r \in Req :
          (pc[r] = "validate") ~> (pc[r] = "done" /\ reply[r].returned)

C5_Witness ==
    \E r \in Req :
        /\ Ended(r)
        /\ trace[r].fault = "sleep"
        /\ trace[r].closeFault = "ValueError"
        /\ reply[r].returned
        /\ reply[r].result.error = InternalError

C7_DelayInEveryTransportCall ==
    \A r \in Req :
        (Ended(r) /\ Has(trace[r].ops, "open")) =>
            /\ Completed(r, "sleep")
            /\ Has(trace[r].ops, "write")
            /\ Pos(trace[r].ops, "write") < Pos(trace[r].ops, "sleep")
            /\ Has(trace[r].ops, "read") =>
                  Pos(trace[r].ops, "sleep") < Pos(trace[r].ops, "read")

\* C7 amended: the delay is skipped on no branch. Once open, the buffer
\* resets, the write and the flush have completed, the delay is the next
\* step; a read happens only after the delay completed, which is after the
\* write completed; a call without the delay is one where open, a buffer
\* reset, the write or the flush raised.
C7_DelayAfterFlushBeforeRead ==
    \A r \in Req :
        IsCall(r) =>
            /\ (Completed(r, "flush") /\ pc[r] # "sleep") => Has(trace[r].ops, "sleep")
            /\ Has(trace[r].ops, "sleep") =>
                  /\ Completed(r, "write")
                  /\ Pos(trace[r].ops, "write") < Pos(trace[r].ops, "sleep")
            /\ Has(trace[r].ops, "read") =>
                  /\ Completed(r, "sleep")
                  /\ Pos(trace[r].ops, "sleep") < Pos(trace[r].ops, "read")
            /\ (Ended(r) /\ Has(trace[r].ops, "open") /\ ~Has(trace[r].ops, "sleep")) =>
                  trace[r].fault \in
                     {"open", "reset_input_buffer", "reset_output_buffer", "write", "flush"}

C7_Witness ==
    \E r \in Req :
        /\ Ended(r)
        /\ trace[r].fault = "read"
        /\ Completed(r, "sleep")
        /\ Pos(trace[r].ops, "write") < Pos(trace[r].ops, "sleep")
        /\ Pos(trace[r].ops, "sleep") < Pos(trace[r].ops, "read")

\* the handler of r holds an open handle
HoldsHandle(r) == frame[r].ser = "open"

\* C8: no two requests hold an open handle to the same device at the same
\* time.
C8_OneHandlePerDevice ==
    \A r1, r2 \in Req :
        (r1 # r2 /\ HoldsHandle(r1) /\ HoldsHandle(r2)) =>
            request[r1].serial_port # request[r2].serial_port

C8_Witness ==
    \E r1, r2 \in Req :
        /\ r1 # r2
        /\ request[r1].kind \in {"switch", "test"}
        /\ HoldsHandle(r1)
        /\ pc[r1] \in StepNames \cup {"exit"}
        /\ pc[r2] = "pending"
        /\ request[r2].serial_port = request[r1].serial_port

\* C9: /switch checks the device path first. When the path is missing,
\* switch_kvm_port is not called, no device is opened and the request ends
\* with status 400 and no result; when it exists, the request ends with
\* status 200 and the result, also when the result is a failure.
C9_FacadeChecksPathFirst ==
    \A r \in Req :
        request[r].kind = "switch" =>
            /\ pc[r] \notin {"idle", "pending", "facade"} =>
                  (request[r].checked # "unchecked" \/ reply[r].status = 422)
            /\ request[r].checked = "missing" =>
                  /\ pc[r] = "done"
                  /\ reply[r].status = 400
                  /\ ~reply[r].returned
                  /\ frame[r] = IdleFrame
                  /\ trace[r] = IdleTrace
            /\ (request[r].checked = "exists" /\ pc[r] = "done") =>
                  /\ reply[r].status = 200
                  /\ reply[r].returned

C9_Witness ==
    \E r \in Req :
        /\ request[r].kind = "switch"
        /\ request[r].checked = "missing"
        /\ pc[r] = "done"
        /\ reply[r].status = 400

\* the device operations of one transaction, in order
DeviceOrder ==
    << "open", "reset_input_buffer", "reset_output_buffer", "write", "flush",
       "sleep", "read", "close" >>

Rank(step) == CHOOSE i \in 1..Len(DeviceOrder) : DeviceOrder[i] = step

\* the operations occur in the order of DeviceOrder, each at most once
InOrderOnce(ops) ==
    /\ \A i \in 1..Len(ops) : \E k \in 1..Len(DeviceOrder) : DeviceOrder[k] = ops[i]
    /\ \A i, j \in 1..Len(ops) : i < j => Rank(ops[i]) < Rank(ops[j])

\* C10 as claimed: strict order, each step at most once, and no step happens
\* unless every earlier step of the order completed.
C10_StrictOrderAllEarlierCompleted ==
    \A r \in Req :
        (IsCall(r) /\ ValidPort(request[r].port)) =>
            /\ InOrderOnce(trace[r].ops)
            /\ \A i \in 1..Len(trace[r].ops) :
                  \A k \in 1..(Rank(trace[r].ops[i]) - 1) : Completed(r, DeviceOrder[k])

\* C10 amended: strict order, each step at most once; no step from open to
\* read happens unless every earlier step completed; close happens only
\* after open completed, also when a step after open raised; after an
\* exception no step but close follows, and nothing is retried.
C10_StrictOrderCloseAfterFault ==
    \A r \in Req :
        (IsCall(r) /\ ValidPort(request[r].port)) =>
            LET ops == trace[r].ops
            IN  /\ InOrderOnce(ops)
                /\ \A i \in 1..Len(ops) :
                      IF ops[i] = "close"
                      THEN Completed(r, "open")
                      ELSE \A k \in 1..(Rank(ops[i]) - 1) : Completed(r, DeviceOrder[k])
                /\ (trace[r].fault # None /\ trace[r].fault # "decode") =>
                      \A i \in 1..Len(ops) :
                          Rank(ops[i]) > Rank(trace[r].fault) => ops[i] = "close"

C10_Witness ==
    \E r \in Req :
        /\ Ended(r)
        /\ trace[r].fault = "write"
        /\ trace[r].ops =
              << "open", "reset_input_buffer", "reset_output_buffer", "write", "close" >>

====
